---- MODULE Spec2Model ----
(***************************************************************************)
(* Model of the hierarchy-to-RDF/XML converter:                            *)
(*   HierarchyParser.parse   (src/modules/hierarchy_parser.py)             *)
(*   XMLGenerator.generate   (src/modules/xml_generator.py)                *)
(*   main                    (src/main.py)                                 *)
(*                                                                         *)
(* A text is a sequence of one-character strings, a path a sequence of     *)
(* segment names (each a text), as the tuples of str of the source.        *)
(***************************************************************************)
EXTENDS Integers, Sequences, FiniteSets, TLC

VARIABLES
    pc,                 \* position of the program
    rows,               \* the (path, uid) rows delivered by _read_lines
    paths,              \* list returned by parse / argument of generate
    external_children,  \* map returned by parse / argument of generate
    parent_uid_map,     \* argument of generate: child path -> externalId
    uuid_source,        \* what uuid4 is: "uuid4" (fresh values) or "stub"
    children_map,       \* generate: parent path -> list of child paths
    parent_map,         \* generate: child path -> parent path
    id_map,             \* generate: path -> generated identifier
    q,                  \* generate: the FIFO queue
    processed,          \* generate: the visited set
    lines,              \* generate: the lines of the document so far
    file,               \* _read_lines: the input file
    data,               \* _read_lines: the rows collected so far
    attempt,            \* _read_lines: index of the encoding being tried
    last_error          \* _read_lines: encoding of the last decode error

vars == <<pc, rows, paths, external_children, parent_uid_map, uuid_source,
          children_map, parent_map, id_map, q, processed, lines,
          file, data, attempt, last_error>>

\* the state of _read_lines
reader_vars == <<file, data, attempt, last_error>>

(***************************************************************************)
(* Bounds                                                                  *)
(***************************************************************************)
MaxRows == 3        \* rows of one input, parse alone
MaxPipeRows == 3    \* rows of one input, parse followed by generate
MaxPaths == 3       \* length of the paths list handed to generate directly
MaxFileRows == 3    \* data rows of the input file

(***************************************************************************)
(* Texts                                                                   *)
(***************************************************************************)
Sep == "\\"
Blank == " "

RECURSIVE Split(_)
\* str.split('\\'): the fields between separators, empty ones kept
Split(s) ==
    IF s = <<>> THEN << <<>> >>
    ELSE LET rest == Split(Tail(s)) IN
         IF Head(s) = Sep THEN << <<>> >> \o rest
         ELSE << <<Head(s)>> \o Head(rest) >> \o Tail(rest)

RECURSIVE LStrip(_)
LStrip(s) == IF s # <<>> /\ Head(s) = Blank THEN LStrip(Tail(s)) ELSE s

RECURSIVE RStrip(_)
RStrip(s) ==
    IF s # <<>> /\ s[Len(s)] = Blank THEN RStrip(SubSeq(s, 1, Len(s) - 1)) ELSE s

\* str.strip()
Strip(s) == RStrip(LStrip(s))

NonEmpty(s) == s # <<>>

\* tuple(p.strip() for p in line.split('\\') if p.strip())
Parts(line) ==
    LET fields == Split(line)
        stripped == [i \in 1..Len(fields) |-> Strip(fields[i])]
    IN SelectSeq(stripped, NonEmpty)

(***************************************************************************)
(* Paths                                                                   *)
(***************************************************************************)
\* path[:i]
Prefix(path, i) == SubSeq(path, 1, i)

\* path[:-1] if len(path) > 1 else tuple()
ParentPath(path) == IF Len(path) > 1 THEN Prefix(path, Len(path) - 1) ELSE <<>>

\* the ancestor loop started one level too deep: range(2, len(path))
AncestorsDropRoot(path) == {Prefix(path, i) : i \in 2..(Len(path) - 1)}

\* the ancestors added by "for i in range(1, len(path)): add(path[:i])"
Ancestors(path) == {Prefix(path, i) : i \in 1..(Len(path) - 1)}

RECURSIVE Orders(_)
\* every order in which the elements of a hash set may be listed
Orders(S) ==
    IF S = {} THEN {<<>>}
    ELSE UNION {{<<x>> \o s : s \in Orders(S \ {x})} : x \in S}

Range(s) == {s[i] : i \in 1..Len(s)}

(***************************************************************************)
(* HierarchyParser.parse                                                   *)
(***************************************************************************)
Line(row) == row[1]
Uid(row) == row[2]

RECURSIVE AllRawPaths(_)
\* all_raw_paths after the first loop: the non-empty parts of every row
AllRawPaths(rs) ==
    IF rs = <<>> THEN <<>>
    ELSE LET parts == Parts(Line(Head(rs))) IN
         (IF parts # <<>> THEN <<parts>> ELSE <<>>) \o AllRawPaths(Tail(rs))

\* the rows whose parts are non-empty and whose uid is non-empty
UidRows(rs) ==
    {i \in 1..Len(rs) : Parts(Line(rs[i])) # <<>> /\ Uid(rs[i]) # <<>>}

\* path_to_uid after the first loop: the last non-empty uid of each path
PathToUid(rs) ==
    LET carrying == {Parts(Line(rs[i])) : i \in UidRows(rs)}
        last(p) == CHOOSE i \in UidRows(rs) :
                       /\ Parts(Line(rs[i])) = p
                       /\ \A j \in UidRows(rs) : Parts(Line(rs[j])) = p => j <= i
    IN [p \in carrying |-> Uid(rs[last(p)])]

\* what one iteration of the second loop adds to paths_to_create
CreatedBy(path, path_to_uid) ==
    IF path \in DOMAIN path_to_uid
    THEN IF ParentPath(path) # <<>>
         THEN {ParentPath(path)} \cup Ancestors(ParentPath(path))
         ELSE {}
    ELSE {path} \cup Ancestors(path)

\* paths_to_create after the second loop
PathsToCreate(rs) ==
    LET raw == AllRawPaths(rs)
        path_to_uid == PathToUid(rs)
    IN UNION {CreatedBy(raw[i], path_to_uid) : i \in 1..Len(raw)}

RECURSIVE ExternalOf(_, _, _)
\* external_children[parent]: the uids appended for parent, in row order
ExternalOf(parent, raw, path_to_uid) ==
    IF raw = <<>> THEN <<>>
    ELSE LET path == Head(raw) IN
         (IF path \in DOMAIN path_to_uid /\ ParentPath(path) = parent
          THEN <<path_to_uid[path]>> ELSE <<>>)
         \o ExternalOf(parent, Tail(raw), path_to_uid)

\* dict(external_children) after the second loop
ExternalChildren(rs) ==
    LET raw == AllRawPaths(rs)
        path_to_uid == PathToUid(rs)
        parents == {ParentPath(raw[i]) : i \in {j \in 1..Len(raw) :
                        /\ raw[j] \in DOMAIN path_to_uid
                        /\ ParentPath(raw[j]) # <<>>}}
    IN [parent \in parents |-> ExternalOf(parent, raw, path_to_uid)]

\* paths = list(paths_to_create): a hash set listed in an unspecified order
ListOf(S) == Orders(S)

(***************************************************************************)
(* XMLGenerator.generate: tree, identifiers                                *)
(***************************************************************************)
\* the (parent, child) pairs of one path, for i in range(1, len(path))
EdgePairs(path) ==
    [i \in 1..(Len(path) - 1) |-> <<Prefix(path, i), Prefix(path, i + 1)>>]

RECURSIVE Edges(_, _)
\* the pairs that pass "parent in paths and child in paths", in loop order
Edges(ps, all) ==
    IF ps = <<>> THEN <<>>
    ELSE LET Keep(e) == e[1] \in all /\ e[2] \in all
         IN SelectSeq(EdgePairs(Head(ps)), Keep) \o Edges(Tail(ps), all)

RECURSIVE ChildrenOf(_, _, _)
\* children_map[parent]: each child appended once, in loop order
ChildrenOf(parent, edges, acc) ==
    IF edges = <<>> THEN acc
    ELSE LET e == Head(edges) IN
         ChildrenOf(parent, Tail(edges),
                    IF e[1] = parent /\ e[2] \notin Range(acc)
                    THEN Append(acc, e[2]) ELSE acc)

\* children_map after the build loop
ChildrenMap(ps) ==
    LET edges == Edges(ps, Range(ps)) IN
    [parent \in {edges[i][1] : i \in 1..Len(edges)} |->
        ChildrenOf(parent, edges, <<>>)]

\* parent_map after the build loop: the last assignment of each child
ParentMap(ps) ==
    LET edges == Edges(ps, Range(ps))
        last(child) == CHOOSE i \in 1..Len(edges) :
                           /\ edges[i][2] = child
                           /\ \A j \in 1..Len(edges) : edges[j][2] = child => j <= i
    IN [child \in {edges[i][2] : i \in 1..Len(edges)} |-> edges[last(child)][1]]

\* the values uuid4 returns, as texts
UuidValues ==
    << <<"g", "1">>, <<"g", "2">>, <<"g", "3">>, <<"g", "4">>,
       <<"g", "5">>, <<"g", "6">> >>

\* the k-th call of uuid4(): a fresh value, or the one value of a stub
Uuid4(source, k) == IF source = "stub" THEN UuidValues[1] ELSE UuidValues[k]

IdPrefix == <<"#", "_">>

\* f"#_{uid}"
GenerateId(source, k) == IdPrefix \o Uuid4(source, k)

\* id_map = {node: self._generate_id(node) for node in all_nodes}
\* (the set is walked in one order; fresh values are interchangeable)
IdMap(ps, source) ==
    LET order == CHOOSE o \in Orders(Range(ps)) : TRUE
        call(node) == CHOOSE k \in 1..Len(order) : order[k] = node
    IN [node \in Range(ps) |-> GenerateId(source, call(node))]

(***************************************************************************)
(* XMLGenerator.generate: one element                                      *)
(***************************************************************************)
Container == "cim:AssetContainer"
Leaf == "me:GenericPSR"

\* current not in children_map or not children_map[current]
IsLeaf(current, cm) == current \notin DOMAIN cm \/ cm[current] = <<>>

\* the category without the "len(current) == 1" case
ElementTypeNoRootRule(current, cm) ==
    IF IsLeaf(current, cm) THEN Leaf ELSE Container

\* element_type
ElementType(current, cm) ==
    IF Len(current) = 1 THEN Container
    ELSE IF IsLeaf(current, cm) THEN Leaf
    ELSE Container

\* the root parent identifier handed to generate
parent_uid == <<"#", "_", "r", "o", "o", "t">>

\* the tree parent tested before the virtual-parent binding
ParentResourceTreeFirst(current, pum, pm, im) ==
    IF Len(current) = 1 THEN parent_uid
    ELSE IF current \in DOMAIN pm /\ pm[current] \in DOMAIN im THEN im[pm[current]]
    ELSE IF current \in DOMAIN pum THEN IdPrefix \o pum[current]
    ELSE parent_uid

\* parent_resource
ParentResource(current, pum, pm, im) ==
    IF Len(current) = 1 THEN parent_uid
    ELSE IF current \in DOMAIN pum THEN IdPrefix \o pum[current]
    ELSE IF current \in DOMAIN pm /\ pm[current] \in DOMAIN im THEN im[pm[current]]
    ELSE parent_uid

\* one line of the document; path names the element the line belongs to
XmlLine(kind, tag, text, path) ==
    [kind |-> kind, tag |-> tag, text |-> text, path |-> path]

RECURSIVE LinkedChildren(_, _, _)
\* the children that get a ChildObjects line and are put on the queue
LinkedChildren(children, im, added) ==
    IF children = <<>> THEN <<>>
    ELSE LET child == Head(children) IN
         IF child \in DOMAIN im /\ im[child] \notin added
         THEN <<child>> \o LinkedChildren(Tail(children), im, added \cup {im[child]})
         ELSE LinkedChildren(Tail(children), im, added)

\* the children a processed element links and enqueues
ChildLinks(current, cm, im) ==
    IF ElementType(current, cm) = Container /\ current \in DOMAIN cm
    THEN LinkedChildren(cm[current], im, {})
    ELSE <<>>

\* the lines appended by one iteration that processes current
ElementLines(current, cm, pum, pm, im) ==
    LET element_type == ElementType(current, cm)
        parent_resource == ParentResource(current, pum, pm, im)
        linked == ChildLinks(current, cm, im)
    IN << XmlLine("open", element_type, im[current], current),
          XmlLine("name", "cim:IdentifiedObject.name", current[Len(current)], current),
          XmlLine("parent", "me:IdentifiedObject.ParentObject", parent_resource, current),
          XmlLine("assets",
                  IF element_type = Container THEN "cim:Asset.AssetContainer"
                  ELSE "cim:PowerSystemResource.Assets",
                  parent_resource, current) >>
       \o [k \in 1..Len(linked) |->
              XmlLine("child", "me:IdentifiedObject.ChildObjects", im[linked[k]], current)]
       \o << XmlLine("close", element_type, <<>>, current) >>

\* the visited check left out
NeverProcessed(current, done) == FALSE

\* current in processed
AlreadyProcessed(current, done) == current \in done

\* the head read without being removed
QueuePeek(queue) == queue

\* the queue after q.get()
QueueAfterGet(queue) == Tail(queue)

(***************************************************************************)
(* Inputs                                                                  *)
(***************************************************************************)
InputLines ==
    { <<"A", "\\">>,
      <<"A", "\\", "B">>,
      <<"A", "\\", " ", "B", "\\", "C">>,
      <<"A", "\\", "B", "\\", "C", "\\", "D">>,
      <<"X", "\\">>,
      <<" ", "\\", " ">> }

NoUid == <<>>
Uid1 == <<"1", "2", "3", "-", "4", "5", "6">>
Uid2 == <<"9", "9", "9">>
InputUids == {NoUid, Uid1, Uid2}

\* every line without uid and with the first uid; two lines also with the second
InputRows ==
    (InputLines \X {NoUid, Uid1})
        \cup ({<<"A", "\\", "B">>, <<"X", "\\">>} \X {Uid2})

RowSeqs(n) == UNION {[1..k -> InputRows] : k \in 0..n}

EmptyMap == [p \in {} |-> <<>>]

\* the codecs behind the encodings _read_lines tries
Codecs == {"utf-8", "cp1251"}

\* a codec decodes the whole file, or raises UnicodeDecodeError after some rows
NoDecodeError == [error |-> FALSE, after |-> 0]

\* no input file: the rows are handed to parse directly
NoFile ==
    [exists |-> FALSE, header |-> FALSE, rows |-> <<>>,
     fail |-> [c \in Codecs |-> NoDecodeError]]

\* _read_lines is not running
ReaderIdle ==
    /\ file = NoFile
    /\ data = <<>>
    /\ attempt = 0
    /\ last_error = "none"

InitParse ==
    /\ ReaderIdle
    /\ pc = "start"
    /\ rows \in RowSeqs(MaxRows)
    /\ paths = <<>>
    /\ external_children = EmptyMap
    /\ parent_uid_map = EmptyMap
    /\ uuid_source = "uuid4"
    /\ children_map = EmptyMap
    /\ parent_map = EmptyMap
    /\ id_map = EmptyMap
    /\ q = <<>>
    /\ processed = {}
    /\ lines = <<>>

\* HierarchyParser.parse, whole
Parse ==
    /\ UNCHANGED reader_vars
    /\ pc = "start"
    /\ pc' = "parsed"
    /\ paths' \in ListOf(PathsToCreate(rows))
    /\ external_children' = ExternalChildren(rows)
    /\ UNCHANGED <<rows, parent_uid_map, uuid_source, children_map, parent_map,
                   id_map, q, processed, lines>>

NextParse == Parse

SpecParse == InitParse /\ [][NextParse]_vars

(***************************************************************************)
(* XMLGenerator.generate                                                   *)
(***************************************************************************)
\* the paths generate is handed directly
GenPaths ==
    { << <<"A">> >>,
      << <<"A">>, <<"B">> >>,
      << <<"A">>, <<"B">>, <<"C">> >>,
      << <<"A">>, <<"E">> >>,
      << <<"X">> >> }

PathLists(n) == UNION {[1..k -> GenPaths] : k \in 0..n}

\* the virtual-parent maps generate is handed directly
GenMaps ==
    { EmptyMap,
      [p \in { << <<"A">> >> } |-> Uid1],
      [p \in { << <<"A">>, <<"B">> >> } |-> Uid1],
      [p \in { << <<"A">>, <<"B">>, <<"C">> >> } |-> Uid2],
      [p \in { << <<"A">> >>, << <<"A">>, <<"E">> >> } |->
          IF Len(p) = 1 THEN Uid1 ELSE Uid2],
      [p \in { << <<"A">>, <<"B">> >>, << <<"A">>, <<"B">>, <<"C">> >> } |->
          IF Len(p) = 2 THEN Uid2 ELSE Uid1] }

UuidSources == {"uuid4", "stub"}

InitGenerate ==
    /\ ReaderIdle
    /\ pc = "generate"
    /\ rows = <<>>
    /\ paths \in PathLists(MaxPaths)
    /\ external_children = EmptyMap
    /\ parent_uid_map \in GenMaps
    /\ uuid_source \in UuidSources
    /\ children_map = EmptyMap
    /\ parent_map = EmptyMap
    /\ id_map = EmptyMap
    /\ q = <<>>
    /\ processed = {}
    /\ lines = <<>>

HeaderLine == XmlLine("header", "rdf:RDF", <<>>, <<>>)
FooterLine == XmlLine("footer", "rdf:RDF", <<>>, <<>>)

\* generate, "if not paths: raise ValueError"
GenerateEmpty ==
    /\ UNCHANGED reader_vars
    /\ pc = "generate"
    /\ paths = <<>>
    /\ pc' = "ValueError"
    /\ UNCHANGED <<rows, paths, external_children, parent_uid_map, uuid_source,
                   children_map, parent_map, id_map, q, processed, lines>>

\* generate up to the traversal loop: tree, identifiers, header, queue
GenerateStart ==
    /\ UNCHANGED reader_vars
    /\ pc = "generate"
    /\ paths # <<>>
    /\ children_map' = ChildrenMap(paths)
    /\ parent_map' = ParentMap(paths)
    /\ id_map' = IdMap(paths, uuid_source)
    /\ lines' = <<HeaderLine>>
    /\ processed' = {}
    /\ q' = paths
    /\ pc' = "loop"
    /\ UNCHANGED <<rows, paths, external_children, parent_uid_map, uuid_source>>

\* one iteration of "while not q.empty()" whose path was processed before
SkipProcessed ==
    /\ UNCHANGED reader_vars
    /\ pc = "loop"
    /\ q # <<>>
    /\ AlreadyProcessed(Head(q), processed)
    /\ q' = QueueAfterGet(q)
    /\ UNCHANGED <<pc, rows, paths, external_children, parent_uid_map, uuid_source,
                   children_map, parent_map, id_map, processed, lines>>

\* one iteration of "while not q.empty()" that emits an element
ProcessPath ==
    /\ UNCHANGED reader_vars
    /\ pc = "loop"
    /\ q # <<>>
    /\ ~AlreadyProcessed(Head(q), processed)
    /\ LET current == Head(q) IN
        /\ processed' = processed \cup {current}
        /\ lines' = lines \o ElementLines(current, children_map, parent_uid_map,
                                          parent_map, id_map)
        /\ q' = QueueAfterGet(q) \o ChildLinks(current, children_map, id_map)
    /\ UNCHANGED <<pc, rows, paths, external_children, parent_uid_map, uuid_source,
                   children_map, parent_map, id_map>>

\* the loop ends on the empty queue; the document is closed and returned
GenerateReturn ==
    /\ UNCHANGED reader_vars
    /\ pc = "loop"
    /\ q = <<>>
    /\ lines' = Append(lines, FooterLine)
    /\ pc' = "done"
    /\ UNCHANGED <<rows, paths, external_children, parent_uid_map, uuid_source,
                   children_map, parent_map, id_map, q, processed>>

NextGenerate ==
    \/ GenerateEmpty
    \/ GenerateStart
    \/ SkipProcessed
    \/ ProcessPath
    \/ GenerateReturn

SpecGenerate == InitGenerate /\ [][NextGenerate]_vars

\* the loop is sequential code: it runs on until it returns
LiveGenerate == SpecGenerate /\ WF_vars(NextGenerate)

(***************************************************************************)
(* parse followed by generate                                              *)
(***************************************************************************)
InitPipeline ==
    /\ ReaderIdle
    /\ pc = "start"
    /\ rows \in RowSeqs(MaxPipeRows)
    /\ paths = <<>>
    /\ external_children = EmptyMap
    /\ parent_uid_map = EmptyMap
    /\ uuid_source = "uuid4"
    /\ children_map = EmptyMap
    /\ parent_map = EmptyMap
    /\ id_map = EmptyMap
    /\ q = <<>>
    /\ processed = {}
    /\ lines = <<>>

\* main: "if not paths: return"
MainNoData ==
    /\ UNCHANGED reader_vars
    /\ pc = "parsed"
    /\ paths = <<>>
    /\ pc' = "no_data"
    /\ UNCHANGED <<rows, paths, external_children, parent_uid_map, uuid_source,
                   children_map, parent_map, id_map, q, processed, lines>>

\* main: generator.generate(paths, external_children, parent_uid=parent_uid)
\* leaves out the required cck_map and parent_uid_map: the call raises
\* TypeError, which main logs before it returns without a document
MainGenerate ==
    /\ UNCHANGED reader_vars
    /\ pc = "parsed"
    /\ paths # <<>>
    /\ pc' = "TypeError"
    /\ UNCHANGED <<rows, paths, external_children, parent_uid_map, uuid_source,
                   children_map, parent_map, id_map, q, processed, lines>>

\* generate called with what parse returned: parse returns no virtual-parent
\* map, so parent_uid_map is the empty map of "parent_uid_map or {}"
CallGenerate ==
    /\ UNCHANGED reader_vars
    /\ pc = "parsed"
    /\ paths # <<>>
    /\ parent_uid_map' = EmptyMap
    /\ pc' = "generate"
    /\ UNCHANGED <<rows, paths, external_children, uuid_source,
                   children_map, parent_map, id_map, q, processed, lines>>

NextPipeline ==
    \/ Parse
    \/ MainNoData
    \/ MainGenerate
    \/ CallGenerate
    \/ GenerateStart
    \/ SkipProcessed
    \/ ProcessPath
    \/ GenerateReturn

SpecPipeline == InitPipeline /\ [][NextPipeline]_vars

(***************************************************************************)
(* HierarchyParser._read_lines                                             *)
(***************************************************************************)
\* encodings = ['utf-8-sig', 'utf-8', 'cp1251', 'windows-1251']
Encodings == <<"utf-8-sig", "utf-8", "cp1251", "windows-1251">>

\* utf-8-sig decodes as utf-8 behind the byte order mark; windows-1251 is
\* another name of cp1251
Codec(encoding) ==
    IF encoding \in {"utf-8-sig", "utf-8"} THEN "utf-8" ELSE "cp1251"

\* the (path, uid) cells of the data rows of a file; the rows a codec reads
\* before it fails are plain ASCII and read alike under every encoding
FileRows ==
    { << <<"A", "\\">>, <<>> >>,
      << <<" ">>, Uid1 >>,
      << <<" ", "A", "\\", "B">>, <<"9", "9", "9", " ">> >> }

\* where a codec may fail in a file of n rows
DecodeOutcomes(n) ==
    {NoDecodeError} \cup {[error |-> TRUE, after |-> k] : k \in 0..n}

\* the files _read_lines may be given
Files ==
    {NoFile} \cup
    UNION { [exists : {TRUE}, header : BOOLEAN, rows : [1..n -> FileRows],
             fail : [Codecs -> DecodeOutcomes(n)]] : n \in 0..MaxFileRows }

\* path = row.get(path_header, '').strip(); uid = row.get(uid_header, '').strip()
ReadRow(row) == <<Strip(row[1]), Strip(row[2])>>

HasPath(row) == row[1] # <<>>

\* the rows "if path: data.append((path, uid))" appends for the first k rows
RowsRead(rs, k) ==
    SelectSeq([i \in 1..k |-> ReadRow(rs[i])], HasPath)

\* the test rows returned without a file (lines 90-112); texts abbreviated
TestDataLen == 12

TestData ==
    [i \in 1..TestDataLen |->
        << <<"T">>, IF i \in {7, 11} THEN Uid1 ELSE NoUid >>]

InitRead ==
    /\ pc = "read_lines"
    /\ file \in Files
    /\ data = <<>>
    /\ attempt = 1
    /\ last_error = "none"
    /\ rows = <<>>
    /\ paths = <<>>
    /\ external_children = EmptyMap
    /\ parent_uid_map = EmptyMap
    /\ uuid_source = "uuid4"
    /\ children_map = EmptyMap
    /\ parent_map = EmptyMap
    /\ id_map = EmptyMap
    /\ q = <<>>
    /\ processed = {}
    /\ lines = <<>>

\* what the rest of the program keeps while _read_lines runs
rest_vars ==
    <<paths, external_children, parent_uid_map, uuid_source, children_map,
      parent_map, id_map, q, processed, lines>>

\* the outcome of decoding the file with the encoding being tried
Decoding == file.fail[Codec(Encodings[attempt])]

\* no file: the test data are returned
ReadTestData ==
    /\ pc = "read_lines"
    /\ ~file.exists
    /\ rows' = TestData
    /\ pc' = "returned"
    /\ UNCHANGED <<file, data, attempt, last_error>>
    /\ UNCHANGED rest_vars

\* one attempt that ends in UnicodeDecodeError: at the sample or the header
\* (no row read), or in the row loop after some rows were appended to data;
\* "continue" goes on with the next encoding
AttemptDecodeError ==
    /\ pc = "read_lines"
    /\ file.exists
    /\ attempt <= Len(Encodings)
    /\ Decoding.error
    /\ (Decoding.after = 0 \/ file.header)
    /\ data' = data \o RowsRead(file.rows, Decoding.after)
    /\ last_error' = Encodings[attempt]
    /\ attempt' = attempt + 1
    /\ UNCHANGED <<pc, rows, file>>
    /\ UNCHANGED rest_vars

\* one attempt whose header lacks the path field: ValueError, raised again by
\* "except Exception"
AttemptHeaderMissing ==
    /\ pc = "read_lines"
    /\ file.exists
    /\ attempt <= Len(Encodings)
    /\ ~(Decoding.error /\ Decoding.after = 0)
    /\ ~file.header
    /\ pc' = "ValueError"
    /\ UNCHANGED <<rows, file, data, attempt, last_error>>
    /\ UNCHANGED rest_vars

\* one attempt that reads the whole file: data is returned
AttemptAccepted ==
    /\ pc = "read_lines"
    /\ file.exists
    /\ attempt <= Len(Encodings)
    /\ ~Decoding.error
    /\ file.header
    /\ data' = data \o RowsRead(file.rows, Len(file.rows))
    /\ rows' = data'
    /\ pc' = "returned"
    /\ UNCHANGED <<file, attempt, last_error>>
    /\ UNCHANGED rest_vars

\* no encoding was accepted: "raise last_error"
AllEncodingsFailed ==
    /\ pc = "read_lines"
    /\ file.exists
    /\ attempt > Len(Encodings)
    /\ pc' = "UnicodeDecodeError"
    /\ UNCHANGED <<rows, file, data, attempt, last_error>>
    /\ UNCHANGED rest_vars

NextRead ==
    \/ ReadTestData
    \/ AttemptDecodeError
    \/ AttemptHeaderMissing
    \/ AttemptAccepted
    \/ AllEncodingsFailed

SpecRead == InitRead /\ [][NextRead]_vars

(***************************************************************************)
(* Properties                                                              *)
(***************************************************************************)
\* the paths that carry their own non-empty externalId in the input
Virtual == DOMAIN PathToUid(rows)

Created == Range(paths)

\* the input without its i-th row
WithoutRow(rs, i) == SubSeq(rs, 1, i - 1) \o SubSeq(rs, i + 1, Len(rs))

\* a row of path length 1 that carries a non-empty externalId
RootUidRow(row) == Len(Parts(Line(row))) = 1 /\ Uid(row) # <<>>

\* the positions of the lines of one kind that belong to the element of p
LinesOf(kind, p) ==
    {i \in 1..Len(lines) : lines[i].kind = kind /\ lines[i].path = p}

\* the parent references emitted in the element of p
ParentRefs(p) == {lines[i].text : i \in LinesOf("parent", p)}

\* the element categories under which p was opened
TypesOf(p) == {lines[i].tag : i \in LinesOf("open", p)}

\* some path of the list is p plus exactly one segment
HasDirectChild(p) == \E c \in Created : Len(c) = Len(p) + 1 /\ ParentPath(c) = p

\* a < b for one-character strings, by the alphabet of the inputs
Alphabet == <<" ", "A", "B", "C", "D", "E", "X">>

CharRank(c) == CHOOSE i \in 1..Len(Alphabet) : Alphabet[i] = c

RECURSIVE TextLess(_, _)
\* str < str
TextLess(a, b) ==
    IF b = <<>> THEN FALSE
    ELSE IF a = <<>> THEN TRUE
    ELSE IF Head(a) = Head(b) THEN TextLess(Tail(a), Tail(b))
    ELSE CharRank(Head(a)) < CharRank(Head(b))

RECURSIVE PathLess(_, _)
\* tuple < tuple: lexicographic by segment
PathLess(a, b) ==
    IF b = <<>> THEN FALSE
    ELSE IF a = <<>> THEN TRUE
    ELSE IF Head(a) = Head(b) THEN PathLess(Tail(a), Tail(b))
    ELSE TextLess(Head(a), Head(b))

\* C1: the list returned by parse never contains a path that carries its own
\* non-empty externalId in the input.
C1_NoVirtualPathCreated ==
    pc = "parsed" => Created \cap Virtual = {}

\* C2: after parse and generate, every created path whose immediate prefix
\* carries its own externalId has that externalId as its emitted parent
\* reference (bare or as the "#_" resource reference), nothing else.
C2_VirtualParentEmitted ==
    pc = "done" =>
        \A p \in Created :
            (Len(p) > 1 /\ ParentPath(p) \in Virtual) =>
                /\ ParentRefs(p) # {}
                /\ ParentRefs(p) \subseteq
                       { PathToUid(rows)[ParentPath(p)],
                         IdPrefix \o PathToUid(rows)[ParentPath(p)] }

\* C3: closure completeness: for every path that is returned or carries its
\* own externalId, every non-empty strict prefix that does not itself carry an
\* externalId is returned.
C3_ClosureComplete ==
    pc = "parsed" =>
        LET virtual == Virtual
            created == Created
        IN \A p \in created \cup virtual :
               \A i \in 1..(Len(p) - 1) :
                   Prefix(p, i) \notin virtual => Prefix(p, i) \in created

\* a path with externalId at depth 3 or more, one of whose strict prefixes is
\* in no row and carries no externalId, and was returned
C3_Witness ==
    /\ pc = "parsed"
    /\ \E p \in Virtual : \E i \in 1..(Len(p) - 2) :
           /\ Prefix(p, i) \notin Range(AllRawPaths(rows))
           /\ Prefix(p, i) \in Created

\* C4: when generate returns, every distinct path of the list has exactly one
\* opening and one closing line, the opening first, and no element is opened
\* or closed for a path outside the list; with fresh identifiers each path's
\* identifier opens exactly one element.
C4_EachPathEmittedOnce ==
    pc = "done" =>
        /\ \A p \in Created :
               /\ Cardinality(LinesOf("open", p)) = 1
               /\ Cardinality(LinesOf("close", p)) = 1
               /\ \A i \in LinesOf("open", p) : \A j \in LinesOf("close", p) : i < j
               /\ uuid_source = "uuid4" =>
                      Cardinality({i \in 1..Len(lines) :
                          lines[i].kind = "open" /\ lines[i].text = id_map[p]}) = 1
        /\ \A i \in 1..Len(lines) :
               lines[i].kind \in {"open", "close"} => lines[i].path \in Created

\* a returned document for a list with a repeated entry in which a child was
\* also put on the queue by its parent
C4_Witness ==
    /\ pc = "done"
    /\ Len(paths) > Cardinality(Created)
    /\ \E i \in 1..Len(lines) : lines[i].kind = "child"

\* C5: within one generate call no two distinct paths receive the same
\* generated identifier, whatever the identifier source returns.
C5_IdentifiersInjective ==
    pc \in {"loop", "done"} =>
        \A a \in DOMAIN id_map : \A b \in DOMAIN id_map :
            a # b => id_map[a] # id_map[b]

\* C6: a row of path length 1 with a non-empty externalId does not affect the
\* result: paths-to-create and external children equal those of the input
\* without that row.
C6_RootUidRowIgnored ==
    pc = "parsed" =>
        \A i \in 1..Len(rows) :
            RootUidRow(rows[i]) =>
                /\ Created = PathsToCreate(WithoutRow(rows, i))
                /\ external_children = ExternalChildren(WithoutRow(rows, i))

\* C7: the list returned by parse is sorted lexicographically by segment tuple.
C7_PathsSorted ==
    pc = "parsed" =>
        \A i \in 1..(Len(paths) - 1) : PathLess(paths[i], paths[i + 1])

\* C8: the parent reference of every emitted path follows the priority order
\* (a) length 1: root parent identifier; (b) virtual-parent binding: its
\* externalId as resource reference; (c) prefix in the list: the prefix's
\* generated identifier; (d) the root parent identifier; and generate does not
\* fail on a non-empty list.
C8_ParentPriority ==
    /\ (pc = "ValueError" => paths = <<>>)
    /\ \A p \in processed :
           ParentRefs(p) =
               { IF Len(p) = 1 THEN parent_uid
                 ELSE IF p \in DOMAIN parent_uid_map
                      THEN IdPrefix \o parent_uid_map[p]
                 ELSE IF ParentPath(p) \in Created THEN id_map[ParentPath(p)]
                 ELSE parent_uid }

\* a returned document with a bound path of length 1, a bound longer path
\* whose prefix is in the list, and an unbound path whose prefix is not
C8_Witness ==
    /\ pc = "done"
    /\ \E p \in Created : Len(p) = 1 /\ p \in DOMAIN parent_uid_map
    /\ \E p \in Created :
           Len(p) > 1 /\ p \in DOMAIN parent_uid_map /\ ParentPath(p) \in Created
    /\ \E p \in Created :
           Len(p) > 1 /\ p \notin DOMAIN parent_uid_map /\ ParentPath(p) \notin Created

\* C9: a path of length 1 is emitted as a Container; a longer path as a
\* Container if and only if a path of the list is its direct child, else as a
\* Leaf; child-reference lines occur only in Containers.
C9_Category ==
    /\ \A p \in processed :
           TypesOf(p) =
               { IF Len(p) = 1 \/ HasDirectChild(p) THEN Container ELSE Leaf }
    /\ \A i \in 1..Len(lines) :
           lines[i].kind = "child" => TypesOf(lines[i].path) = {Container}

\* a returned document with a childless root, a longer Container and a Leaf
C9_Witness ==
    /\ pc = "done"
    /\ \E p \in Created : Len(p) = 1 /\ ~HasDirectChild(p)
    /\ \E p \in Created : Len(p) > 1 /\ HasDirectChild(p)
    /\ \E p \in Created : Len(p) > 1 /\ ~HasDirectChild(p)

\* C10: the traversal terminates: from the call on a non-empty list the queue
\* eventually is empty and the document returned; a dequeued path that was
\* processed before is dropped without enqueuing or emitting anything.
C10_Terminates ==
    /\ (pc = "generate" /\ paths # <<>>) ~> (pc = "done" /\ q = <<>>)
    /\ [][(pc = "loop" /\ q # <<>> /\ Head(q) \in processed) =>
              (q' = Tail(q) /\ lines' = lines /\ processed' = processed)]_vars

\* in the loop, a path processed before is at the head of the queue after a
\* parent put its child on the queue
C10_Witness ==
    /\ pc = "loop"
    /\ q # <<>>
    /\ Head(q) \in processed
    /\ \E i \in 1..Len(lines) : lines[i].kind = "child"

\* the identifiers the element of p links as its children
ChildRefs(p) == {lines[i].text : i \in LinesOf("child", p)}

\* C12: parent and child links agree: whenever the element of path P holds a
\* child-reference link to the identifier of path C, the parent reference in
\* the element of C is the identifier of P (stated for fresh identifiers, where
\* an identifier names one path).
C12_LinksConsistent ==
    (pc = "done" /\ uuid_source = "uuid4") =>
        \A P \in Created : \A C \in Created :
            id_map[C] \in ChildRefs(P) => ParentRefs(C) = {id_map[P]}

\* C11: the rows _read_lines returns from a file are those of the accepted
\* encoding attempt alone: no row read by a failed attempt is among them and
\* no row of the file occurs more often than in the file.
C11_OnlyAcceptedRows ==
    (pc = "returned" /\ file.exists) =>
        rows = RowsRead(file.rows, Len(file.rows))

====
